---- MODULE Spec2Model ----
(***************************************************************************)
(* A model of quanto/tensor/qtensor.py: the symmetric Quantizer, the       *)
(* Dequantizer, the QTensor constructor with its axis resolution, the      *)
(* flatten/unflatten pair and the dispatch fallback.                       *)
(*                                                                         *)
(* A tensor is a record [shape, device, dtype, val]; val maps every        *)
(* coordinate tuple of the shape (0-based) to a number.  A number is       *)
(* either a rational n/d in lowest terms (kind "fin") or one of the IEEE   *)
(* specials the element-wise division can produce (kinds "pinf", "ninf",   *)
(* "nan").  Floating-point rounding of the arithmetic itself is not        *)
(* modelled: finite arithmetic is exact.                                   *)
(***************************************************************************)
EXTENDS Integers, Sequences, FiniteSets, TLC

\* ------------------------------------------------------------ bounds
\* Largest rank of a generated tensor.
MaxRank == 3
\* Largest length of the rank-1 tensors whose elements range over NumVals.
MaxLen == 3

\* ------------------------------------------------------------ options
\* Python's None, and a present value.
None == <<>>
Some(x) == <<x>>

\* ------------------------------------------------------------ numbers
Abs(i) == IF i < 0 THEN -i ELSE i

RECURSIVE Gcd(_, _)
Gcd(a, b) == IF b = 0 THEN a ELSE Gcd(b, a % b)

\* The rational n/d (d # 0) in lowest terms with a positive denominator.
Rat(n, d) ==
    LET g == Gcd(Abs(n), Abs(d))
        s == IF d < 0 THEN -1 ELSE 1
    IN [k |-> "fin", n |-> (s * n) \div g, d |-> (s * d) \div g]

Fin(n) == [k |-> "fin", n |-> n, d |-> 1]
NaN == [k |-> "nan", n |-> 0, d |-> 1]
PosInf == [k |-> "pinf", n |-> 0, d |-> 1]
NegInf == [k |-> "ninf", n |-> 0, d |-> 1]

IsFin(x) == x.k = "fin"
Sign(x) == CASE x.k = "pinf" -> 1
             [] x.k = "ninf" -> -1
             [] x.k = "nan" -> 0
             [] OTHER -> IF x.n > 0 THEN 1 ELSE IF x.n < 0 THEN -1 ELSE 0
Signed(s) == IF s > 0 THEN PosInf ELSE NegInf

\* a < b and a <= b; false whenever an operand is NaN, as in IEEE 754.
Less(a, b) ==
    /\ a.k # "nan" /\ b.k # "nan"
    /\ CASE a.k = "pinf" -> FALSE
         [] a.k = "ninf" -> b.k # "ninf"
         [] b.k = "pinf" -> TRUE
         [] b.k = "ninf" -> FALSE
         [] OTHER -> a.n * b.d < b.n * a.d
Leq(a, b) == a.k # "nan" /\ b.k # "nan" /\ ~Less(b, a)

NumAbs(x) == CASE x.k = "fin" -> Rat(Abs(x.n), x.d)
               [] x.k = "nan" -> NaN
               [] OTHER -> PosInf

\* a / b, element of base / scale.
NumDiv(a, b) ==
    CASE a.k = "nan" \/ b.k = "nan" -> NaN
      [] ~IsFin(a) /\ ~IsFin(b) -> NaN
      [] ~IsFin(a) -> Signed(Sign(a) * (IF Sign(b) < 0 THEN -1 ELSE 1))
      [] ~IsFin(b) -> Fin(0)
      [] b.n = 0 -> IF a.n = 0 THEN NaN ELSE Signed(Sign(a))
      [] OTHER -> Rat(a.n * b.d, a.d * b.n)

\* a * b, element of scale * data.
NumMul(a, b) ==
    CASE a.k = "nan" \/ b.k = "nan" -> NaN
      [] ~IsFin(a) \/ ~IsFin(b) ->
            IF Sign(a) * Sign(b) = 0 THEN NaN ELSE Signed(Sign(a) * Sign(b))
      [] OTHER -> Rat(a.n * b.n, a.d * b.d)

NumSub(a, b) == Rat(a.n * b.d - b.n * a.d, a.d * b.d)

\* Faulty variant of NumRound: rounds down.
NumRoundDown(x) == IF ~IsFin(x) THEN x ELSE Fin(x.n \div x.d)

\* torch.round: to the nearest integer, ties to the even one.
NumRound(x) ==
    IF ~IsFin(x) THEN x
    ELSE LET f == x.n \div x.d
             r == x.n - f * x.d
         IN Fin(IF 2 * r < x.d THEN f
                ELSE IF 2 * r > x.d THEN f + 1
                ELSE IF f % 2 = 0 THEN f ELSE f + 1)

\* Faulty variant of NumClamp: the lower bound is not applied.
NumClampUpper(x, lo, hi) ==
    CASE x.k = "nan" -> NaN
      [] Less(hi, x) -> hi
      [] OTHER -> x

\* torch.clamp(x, min=lo, max=hi): NaN passes through.
NumClamp(x, lo, hi) ==
    CASE x.k = "nan" -> NaN
      [] Less(x, lo) -> lo
      [] Less(hi, x) -> hi
      [] OTHER -> x

\* ------------------------------------------------------------ qtypes
\* The quantized types: a name, whether the format is floating point, and
\* the storage element type.
qint8 == [name |-> "qint8", is_floating_point |-> FALSE, dtype |-> "int8"]
qfloat8 == [name |-> "qfloat8_e4m3fn", is_floating_point |-> TRUE, dtype |-> "float8_e4m3fn"]
QTypes == {qint8, qfloat8}

\* Representable extremes of the storage types.
Int8Max == 127
Float8Max == 448
\* Width of the integer storage type and mantissa bits of the float one.
Int8Bits == 8
Float8Mantissa == 3
Float8MinExp == -6
Float8MaxExp == 8

\* dtype_info(dtype): the representable [min, max] of a storage type.
dtype_info(dtype) ==
    IF dtype = "int8" THEN [min |-> Fin(-Int8Max), max |-> Fin(Int8Max)]
    ELSE [min |-> Fin(-Float8Max), max |-> Fin(Float8Max)]

RECURSIVE Pow2(_)
Pow2(e) == IF e = 0 THEN 1 ELSE 2 * Pow2(e - 1)
\* 2^e as a number, e of either sign.
NumPow2(e) == IF e >= 0 THEN Fin(Pow2(e)) ELSE Rat(1, Pow2(-e))

\* Tensor.to(int8) of one element: an integer in range is kept, one out of
\* range wraps around modulo 2^8, a fraction is truncated toward zero first.
\* The conversion of NaN or an infinity is undefined: the low byte of the
\* 32-bit conversion, 0 or -1 according to the hardware.
CastInt8(x) ==
    LET half == Pow2(Int8Bits - 1)
    IN IF ~IsFin(x) THEN {Fin(0), Fin(-1)}
       ELSE LET t == IF x.n >= 0 THEN x.n \div x.d ELSE -((-x.n) \div x.d)
            IN {Fin(((t + half) % (2 * half)) - half)}

\* Tensor.to(float8_e4m3fn) of one element: round to the nearest value with
\* Float8Mantissa mantissa bits (ties to even); beyond the largest finite
\* value, and for NaN and the infinities, the format only has NaN.
CastFloat8(x) ==
    IF ~IsFin(x) THEN {NaN}
    ELSE IF x.n = 0 THEN {x}
    ELSE LET a == NumAbs(x)
             es == {e \in Float8MinExp..Float8MaxExp : Leq(NumPow2(e), a)}
             e == IF es = {} THEN Float8MinExp ELSE CHOOSE m \in es : \A o \in es : o <= m
             quantum == NumPow2(e - Float8Mantissa)
             r == NumMul(NumRound(NumDiv(x, quantum)), quantum)
         IN IF Less(Fin(Float8Max), NumAbs(r)) THEN {NaN} ELSE {r}

\* The outcomes of casting one element to the storage type dtype.
CastElem(x, dtype) == IF dtype = "int8" THEN CastInt8(x) ELSE CastFloat8(x)

\* ------------------------------------------------------------ tensors
Devices == {"cpu", "cuda"}

ndim(t) == Len(t.shape)

RECURSIVE SeqMax(_)
SeqMax(s) == IF s = <<>> THEN 0
             ELSE LET m == SeqMax(Tail(s)) IN IF Head(s) > m THEN Head(s) ELSE m

\* The coordinate tuples (0-based) of a tensor of this shape.
Coords(shape) ==
    {c \in [1..Len(shape) -> 0..(SeqMax(shape) - 1)] :
        \A i \in 1..Len(shape) : c[i] < shape[i]}

\* The tensor of the given shape, device and dtype whose element at c is F(c).
Tensor(shape, device, dtype, F(_)) ==
    [shape |-> shape, device |-> device, dtype |-> dtype,
     val |-> [c \in Coords(shape) |-> F(c)]]

NonUnit(shape) == {i \in 1..Len(shape) : shape[i] # 1}

\* torch.squeeze(t): the dimensions of size 1 are removed.
Squeeze(t) ==
    LET keep(i) == Cardinality({j \in 1..i : t.shape[j] # 1})
        shape == SelectSeq(t.shape, LAMBDA n : n # 1)
        expand(c) == [i \in 1..Len(t.shape) |->
                        IF t.shape[i] = 1 THEN 0 ELSE c[keep(i)]]
    IN Tensor(shape, t.device, t.dtype, LAMBDA c : t.val[expand(c)])

\* Broadcasting of two shapes, aligned on their last dimensions.
PadLeft(shape, r) ==
    [i \in 1..r |-> IF i <= r - Len(shape) THEN 1 ELSE shape[i - (r - Len(shape))]]
MaxOf(a, b) == IF a > b THEN a ELSE b
Broadcastable(s1, s2) ==
    LET r == MaxOf(Len(s1), Len(s2))
    IN \A i \in 1..r :
          \/ PadLeft(s1, r)[i] = PadLeft(s2, r)[i]
          \/ PadLeft(s1, r)[i] = 1
          \/ PadLeft(s2, r)[i] = 1
BroadcastShape(s1, s2) ==
    LET r == MaxOf(Len(s1), Len(s2))
    IN [i \in 1..r |-> IF PadLeft(s1, r)[i] = 1 THEN PadLeft(s2, r)[i]
                       ELSE PadLeft(s1, r)[i]]
\* The coordinate of an operand of shape `shape` that feeds result coordinate c.
Proj(c, shape) ==
    [i \in 1..Len(shape) |->
        IF shape[i] = 1 THEN 0 ELSE c[i + (Len(c) - Len(shape))]]

\* The device of the result of an element-wise binary operation, None when
\* the operands cannot be combined: operands on different devices are
\* accepted only when one of them is a rank-0 CPU tensor.
BinaryDevice(a, b) ==
    IF a.device = b.device THEN Some(a.device)
    ELSE IF a.device = "cpu" /\ ndim(a) = 0 THEN Some(b.device)
    ELSE IF b.device = "cpu" /\ ndim(b) = 0 THEN Some(a.device)
    ELSE None

\* Element-wise op(a, b) with broadcasting, for operands that can be combined.
Binary(a, b, dtype, op(_, _)) ==
    Tensor(BroadcastShape(a.shape, b.shape), BinaryDevice(a, b)[1], dtype,
           LAMBDA c : op(a.val[Proj(c, a.shape)], b.val[Proj(c, b.shape)]))

\* Element-wise f(t).
Map(t, f(_)) == Tensor(t.shape, t.device, t.dtype, LAMBDA c : f(t.val[c]))

\* t.to(dtype): every way of casting the elements of t to dtype (one way,
\* unless an element's conversion is undefined).
CastTensor(t, dtype) ==
    LET cs == Coords(t.shape)
        open == {c \in cs : Cardinality(CastElem(t.val[c], dtype)) > 1}
        alts == UNION {CastElem(t.val[c], dtype) : c \in open}
        picks == {w \in [open -> alts] : \A c \in open : w[c] \in CastElem(t.val[c], dtype)}
    IN {[shape |-> t.shape, device |-> t.device, dtype |-> dtype,
         val |-> [c \in cs |-> IF c \in open THEN w[c]
                               ELSE CHOOSE v \in CastElem(t.val[c], dtype) : TRUE]] :
           w \in picks}

\* ------------------------------------------------------------ absmax_scale
\* The floor that keeps the computed scale away from zero.
EpsFloor == Rat(1, 1000)

RECURSIVE MaxAbsOver(_, _)
MaxAbsOver(val, cs) ==
    IF cs = {} THEN Fin(0)
    ELSE LET c == CHOOSE x \in cs : TRUE
             m == MaxAbsOver(val, cs \ {c})
         IN IF Less(m, NumAbs(val[c])) THEN NumAbs(val[c]) ELSE m

\* absmax_scale(base, qtype) with axis=None: the rank-0 scale
\* max(|base|) / info.max, not below EpsFloor, on the device of base.
absmax_scale(base, qt) ==
    LET m == NumDiv(MaxAbsOver(base.val, Coords(base.shape)), dtype_info(qt.dtype).max)
    IN Tensor(<<>>, base.device, base.dtype,
              LAMBDA c : IF Less(m, EpsFloor) THEN EpsFloor ELSE m)

\* ------------------------------------------------------------ QTensor
\* The outcome of an operation: its status, the error raised (if any), the
\* steps executed in order, and the value produced (None on an error).
Ok(steps, value) == [status |-> "ok", err |-> "", steps |-> steps, value |-> Some(value)]
Done(steps) == [status |-> "ok", err |-> "", steps |-> steps, value |-> None]
Raise(err, steps) == [status |-> "error", err |-> err, steps |-> steps, value |-> None]

\* Faulty variant of ScanAxis: axis is set at every dimension.
RECURSIVE ScanAxisAny(_, _, _)
ScanAxisAny(dims, i, axis) ==
    IF i >= Len(dims) THEN axis ELSE ScanAxisAny(dims, i + 1, Some(i))

\* The loop of QTensor.__init__ over the dimensions of the scale, from
\* dimension i (0-based) on: axis is set at every dimension of size # 1.
RECURSIVE ScanAxis(_, _, _)
ScanAxis(dims, i, axis) ==
    IF i >= Len(dims) THEN axis
    ELSE ScanAxis(dims, i + 1, IF dims[i + 1] # 1 THEN Some(i) ELSE axis)

\* Faulty variant of NormalizeAxis: compares with the rank, so never normalizes.
NormalizeAxisOff(axis, rank) == IF axis = Some(rank) THEN Some(-1) ELSE axis

\* The last-axis convention of QTensor.__init__.
NormalizeAxis(axis, rank) == IF axis = Some(rank - 1) THEN Some(-1) ELSE axis

\* Faulty variant of MultiAxis: off by one.
MultiAxisOff(scale) == ndim(Squeeze(scale)) > 2
\* Faulty variant of RankMismatch: only a scale of higher rank is rejected.
RankMismatchOff(scale, t) == ndim(scale) > ndim(t)

\* The two shape checks made by Quantizer.forward and by QTensor.__init__.
MultiAxis(scale) == ndim(Squeeze(scale)) > 1
RankMismatch(scale, t) == ndim(scale) # ndim(t)

\* Faulty variant of SameDevice: the assertion is dropped.
SameDeviceOff(data, scale) == TRUE

\* The check of QTensor.__new__.
SameDevice(data, scale) == data.device = scale.device

\* QTensor(qtype, data, scale): __new__ then __init__, after the steps `done`.
QTensorNew(qt, data, scale, done) ==
    LET s1 == Append(done, "new_assert_device")
        s2 == Append(s1, "make_wrapper_subclass")
        s3 == Append(s2, "init_check_squeeze")
        s4 == Append(s3, "init_check_ndim")
        s5 == Append(s4, "resolve_axis")
        wrap(axis, sc, steps) ==
            Ok(Append(steps, "store"),
               [qtype |-> qt, axis |-> axis, data |-> data, scale |-> sc,
                size |-> data.shape, dtype |-> scale.dtype, device |-> data.device])
    IN IF ~SameDevice(data, scale) THEN Raise("AssertionError: device", s1)
       ELSE IF ndim(scale) = 0 THEN wrap(None, scale, s2)
       ELSE IF MultiAxis(scale) THEN Raise("ValueError: multiple axis", s3)
       ELSE IF RankMismatch(scale, data) THEN Raise("ValueError: not broadcastable", s4)
       ELSE LET axis == ScanAxis(scale.shape, 0, None)
            IN IF axis = None THEN wrap(None, Squeeze(scale), s5)
               ELSE wrap(NormalizeAxis(axis, ndim(scale)), scale, s5)

\* ------------------------------------------------------------ Quantizer
\* The element-wise steps of Quantizer.forward.
Divide(base, scale) == Binary(base, scale, base.dtype, NumDiv)
Round(data) == Map(data, NumRound)
Clamp(data, info) == Map(data, LAMBDA x : NumClamp(x, info.min, info.max))

\* Quantizer.forward(base, qtype, scale): the set of its possible outcomes;
\* scale is None or Some(tensor).
QuantizerForward(base, qt, scale) ==
    LET info == dtype_info(qt.dtype)
        s0 == <<"dtype_info">>
        arith(sc, done) ==
            IF BinaryDevice(base, sc) = None
            THEN {Raise("RuntimeError: device", Append(done, "divide"))}
            ELSE IF ~Broadcastable(base.shape, sc.shape)
            THEN {Raise("RuntimeError: shape", Append(done, "divide"))}
            ELSE LET d1 == Divide(base, sc)
                     d2 == IF qt.is_floating_point THEN d1 ELSE Round(d1)
                     d3 == Clamp(d2, info)
                     st == Append(done, "divide")
                           \o (IF qt.is_floating_point THEN <<>> ELSE <<"round">>)
                           \o <<"clamp", "cast">>
                 IN {QTensorNew(qt, data, sc, st) : data \in CastTensor(d3, qt.dtype)}
    IN IF scale = None
       THEN arith(absmax_scale(base, qt), Append(s0, "absmax_scale"))
       ELSE IF ndim(scale[1]) > 0
       THEN IF MultiAxis(scale[1])
            THEN {Raise("ValueError: multiple axis", Append(s0, "check_squeeze"))}
            ELSE IF RankMismatch(scale[1], base)
            THEN {Raise("ValueError: not broadcastable", s0 \o <<"check_squeeze", "check_ndim">>)}
            ELSE arith(scale[1], s0 \o <<"check_squeeze", "check_ndim">>)
       ELSE arith(scale[1], s0)

\* Faulty variant of QuantizerBackward: the gradient goes to the scale.
QuantizerBackwardToScale(gO) == <<None, None, Some(gO)>>

\* Quantizer.backward(gO): one gradient per forward input.
QuantizerBackward(gO) == <<Some(gO), None, None>>

\* ------------------------------------------------------------ Dequantizer
\* Tensor.to(dtype) for the upcast of the data to the dtype of the scale:
\* every storage value is representable, so the elements are kept.
Upcast(t, dtype) == [t EXCEPT !.dtype = dtype]

\* Dequantizer.forward(t).
DequantizerForward(t) ==
    IF t.qtype.is_floating_point
    THEN Binary(t.scale, Upcast(t.data, t.scale.dtype), t.scale.dtype, NumMul)
    ELSE Binary(t.scale, t.data, t.scale.dtype, NumMul)

\* Dequantizer.backward(gO).
DequantizerBackward(gO) == gO

\* q.dequantize(): the multiplication raises when the stored scale does not
\* broadcast against the stored data.
dequantize(t) ==
    IF Broadcastable(t.scale.shape, t.data.shape)
    THEN Ok(<<"multiply">>, DequantizerForward(t))
    ELSE Raise("RuntimeError: shape", <<"multiply">>)

\* ------------------------------------------------------------ dispatch
\* An argument tree: a leaf [t |-> "QTensor" | "Tensor" | "int", v |-> ...] or
\* a container [t |-> "list" | "dict", items |-> ...] (a tuple of positional
\* arguments is a list, the keyword arguments are a dict).
Leaf(t, v) == [t |-> t, v |-> v]
List(items) == [t |-> "list", items |-> items]
Dict(items) == [t |-> "dict", items |-> items]

RECURSIVE QLeaves(_)
QLeaves(node) ==
    IF node.t = "QTensor" THEN {node.v}
    ELSE IF node.t \in {"list", "dict"}
    THEN UNION {QLeaves(node.items[i]) : i \in DOMAIN node.items}
    ELSE {}

\* Faulty variant of TreeMapOnly: nested containers are not entered.
TreeMapOnlyShallow(node) ==
    LET leaf(n) == IF n.t = "QTensor" THEN Leaf("Tensor", dequantize(n.v).value[1]) ELSE n
    IN IF node.t \in {"list", "dict"}
       THEN [node EXCEPT !.items = [i \in DOMAIN node.items |-> leaf(node.items[i])]]
       ELSE leaf(node)

\* pytree.tree_map_only(QTensor, lambda x: x.dequantize(), tree), for a tree
\* whose Quantized Values all dequantize.
RECURSIVE TreeMapOnly(_)
TreeMapOnly(node) ==
    IF node.t = "QTensor" THEN Leaf("Tensor", dequantize(node.v).value[1])
    ELSE IF node.t \in {"list", "dict"}
    THEN [node EXCEPT !.items = [i \in DOMAIN node.items |-> TreeMapOnly(node.items[i])]]
    ELSE node

Call(callee, target, args, kwargs) ==
    [callee |-> callee, target |-> target, args |-> args, kwargs |-> kwargs]

\* qfallback(callable, *args, **kwargs): the outcome and the calls made.
qfallback(callable, args, kwargs) ==
    IF \E t \in QLeaves(args) \cup QLeaves(kwargs) : dequantize(t).status = "error"
    THEN [out |-> Raise("RuntimeError: shape", <<"tree_map_only">>), calls |-> <<>>]
    ELSE [out |-> Done(<<"tree_map_only", "call">>),
          calls |-> <<Call("callable", callable, TreeMapOnly(args), TreeMapOnly(kwargs))>>]

\* The operations with a registered quantized handler, and the lookup
\* get_qtensor_op_dispatch(op): the handler's name or None.
Packets == {"mm", "relu"}
Registered == {"mm"}
get_qtensor_op_dispatch(packet) == IF packet \in Registered THEN Some(packet) ELSE None

\* QTensor.__torch_dispatch__(op, types, args, kwargs).
TorchDispatch(overload, args, kwargs) ==
    LET packet == overload.overloadpacket
        qdispatch == get_qtensor_op_dispatch(packet)
    IN IF qdispatch # None
       THEN [out |-> Done(<<"lookup", "qdispatch">>),
             calls |-> <<Call("qdispatch", qdispatch[1], args, kwargs)>>]
       ELSE LET r == qfallback(packet, args, kwargs)
            IN [r EXCEPT !.out.steps = <<"lookup", "qfallback">> \o @]

\* ------------------------------------------------------------ flatten / unflatten
GetAttr(t, name) == IF name = "_data" THEN t.data ELSE t.scale

\* QTensor.__tensor_flatten__(self): the attribute names of the inner
\* tensors and the metadata.
TensorFlatten(t) ==
    [inner_tensors |-> <<"_data", "_scale">>, meta |-> [qtype |-> t.qtype]]

\* Faulty variant of TensorUnflatten: the inner tensors are swapped.
TensorUnflattenSwapped(inner_tensors, meta) ==
    QTensorNew(meta.qtype, inner_tensors["_scale"], inner_tensors["_data"],
               <<"assert_inner", "assert_meta">>)

\* QTensor.__tensor_unflatten__(inner_tensors, meta, outer_size, outer_stride);
\* inner_tensors maps attribute names to tensors.
TensorUnflatten(inner_tensors, meta) ==
    IF Cardinality(DOMAIN inner_tensors) # 2
    THEN Raise("AssertionError: inner_tensors", <<"assert_inner">>)
    ELSE IF Cardinality(DOMAIN meta) # 1
    THEN Raise("AssertionError: meta", <<"assert_inner", "assert_meta">>)
    ELSE QTensorNew(meta.qtype, inner_tensors["_data"], inner_tensors["_scale"],
                    <<"assert_inner", "assert_meta">>)

\* ------------------------------------------------------------ inputs
DimSizes == {1, 2, 3}
Shapes == UNION {[1..r -> DimSizes] : r \in 0..MaxRank}

SumSeq(c) == LET RECURSIVE S(_)
                 S(i) == IF i = 0 THEN 0 ELSE c[i] + S(i - 1)
             IN S(Len(c))

BaseFill(c) == Fin(3 * SumSeq(c) - 2)
ScaleFill(c) == Rat(1 + SumSeq(c), 2)

\* The tensors whose shape ranges over Shapes, on one device: the elements
\* are fixed by the coordinate, small integers for a base or data tensor and
\* positive fractions for a scale.
ShapeBases == {Tensor(sh, "cpu", "float32", BaseFill) : sh \in Shapes}
ShapeScales == {Tensor(sh, "cpu", "float32", ScaleFill) : sh \in Shapes}

\* The tensors whose device ranges over Devices, of a few shapes; a scale
\* may also have a dimension of size 0.
DeviceShapes == {<<>>, <<2>>, <<1, 1>>, <<1, 2>>, <<2, 2>>}
DeviceBases ==
    {Tensor(sh, dev, "float32", BaseFill) : sh \in DeviceShapes, dev \in Devices}
DeviceScales ==
    {Tensor(sh, dev, "float32", ScaleFill) :
        sh \in DeviceShapes \cup {<<0>>, <<1, 0>>, <<0, 2>>}, dev \in Devices}

\* The tensors whose elements range over a set of values: rank 0 and rank 1.
NumVals == {Fin(-5), Fin(0), Rat(1, 2), Fin(5), Fin(127)}
ScaleVals == {Fin(0), Rat(1, 4), Fin(2), Rat(-1, 4)}
Vectors(shapes, vals) ==
    UNION {{[shape |-> sh, device |-> "cpu", dtype |-> "float32", val |-> v] :
               v \in [Coords(sh) -> vals]} : sh \in shapes}
NumBases == Vectors({<<>>} \cup {<<n>> : n \in 1..MaxLen}, NumVals)
NumScales == Vectors({<<>>, <<1>>, <<2>>}, ScaleVals)

Optional(S) == {None} \cup {Some(t) : t \in S}

\* The argument triples (tensor, qtype, scale) of quantize and of the
\* constructor; scale is None (quantize only) or Some(tensor).
Inputs ==
    (ShapeBases \X QTypes \X Optional(ShapeScales))
    \cup (DeviceBases \X QTypes \X Optional(DeviceScales))
    \cup (NumBases \X QTypes \X Optional(NumScales))

\* The upstream gradients of a tensor of the given shape.
Gradients(t) ==
    {Tensor(t.shape, t.device, t.dtype, LAMBDA c : Fin(k * (1 + SumSeq(c)))) : k \in {-1, 2}}

\* ------------------------------------------------------------ state
VARIABLES
    x,      \* the tensor argument: base of quantize, data of the constructor
    qt,     \* the qtype argument
    sc,     \* the scale argument: None or Some(tensor)
    trail,  \* the operations applied so far, in order
    out,    \* the outcome of the last operation
    q,      \* the Quantized Value in existence: None or Some(QTensor)
    src,    \* the Quantized Value that was flattened, and its flat form
    deq,    \* the dequantized tensor: None or Some(tensor)
    grads,  \* the gradients of the backward pass: None or Some(record)
    call,   \* the dispatched call: None or Some([op, args, kwargs])
    calls   \* the invocations made by the dispatch, in order

vars == <<x, qt, sc, trail, out, q, src, deq, grads, call, calls>>

op == IF trail = <<>> THEN "start" ELSE trail[Len(trail)]

Init ==
    /\ \E i \in Inputs : x = i[1] /\ qt = i[2] /\ sc = i[3]
    /\ trail = <<>>
    /\ out = Done(<<>>)
    /\ q = None
    /\ src = None
    /\ deq = None
    /\ grads = None
    /\ call = None
    /\ calls = <<>>

\* The data argument of a direct construction: the elements of x held in the
\* storage type of the qtype.
AsData(t, qtype) == [t EXCEPT !.dtype = qtype.dtype]

\* QTensor.quantize(base, qtype, scale).
Quantize ==
    /\ op = "start"
    /\ \E o \in QuantizerForward(x, qt, sc) :
          /\ out' = o
          /\ q' = o.value
    /\ trail' = Append(trail, "quantize")
    /\ UNCHANGED <<x, qt, sc, src, deq, grads, call, calls>>

\* QTensor(qtype, data, scale).
Construct ==
    /\ op = "start"
    /\ sc # None
    /\ out' = QTensorNew(qt, AsData(x, qt), sc[1], <<>>)
    /\ q' = out'.value
    /\ trail' = Append(trail, "construct")
    /\ UNCHANGED <<x, qt, sc, src, deq, grads, call, calls>>

\* q.__tensor_flatten__().
Flatten ==
    /\ op \in {"quantize", "construct"}
    /\ q # None
    /\ src' = Some([q |-> q[1], flat |-> TensorFlatten(q[1])])
    /\ out' = Done(<<"flatten">>)
    /\ trail' = Append(trail, "flatten")
    /\ UNCHANGED <<x, qt, sc, q, deq, grads, call, calls>>

\* QTensor.__tensor_unflatten__ on the inner tensors read from the flattened
\* value under the names it listed.
Unflatten ==
    /\ op = "flatten"
    /\ LET names == src[1].flat.inner_tensors
           inner == [n \in {names[i] : i \in 1..Len(names)} |-> GetAttr(src[1].q, n)]
       IN out' = TensorUnflatten(inner, src[1].flat.meta)
    /\ q' = out'.value
    /\ trail' = Append(trail, "unflatten")
    /\ UNCHANGED <<x, qt, sc, src, deq, grads, call, calls>>

\* q.dequantize().
Dequantize ==
    /\ op \in {"quantize", "construct", "unflatten"}
    /\ q # None
    /\ out' = dequantize(q[1])
    /\ deq' = out'.value
    /\ trail' = Append(trail, "dequantize")
    /\ UNCHANGED <<x, qt, sc, q, src, grads, call, calls>>

\* The backward pass of quantize followed by dequantize, from an upstream
\* gradient gO of the dequantized tensor.
Backward ==
    /\ trail = <<"quantize", "dequantize">>
    /\ deq # None
    /\ \E gO \in Gradients(deq[1]) :
          LET gq == DequantizerBackward(gO)
          IN grads' = Some([gO |-> gO, dequantize |-> gq, quantize |-> QuantizerBackward(gq)])
    /\ out' = Done(<<"backward">>)
    /\ trail' = Append(trail, "backward")
    /\ UNCHANGED <<x, qt, sc, q, src, deq, call, calls>>

\* The argument trees of a dispatched operation on the Quantized Value t:
\* positional arguments and keyword arguments, with t at the top level, next
\* to other arguments, nested in a list and among the keyword arguments.
ArgTrees(t, other) ==
    LET qv == Leaf("QTensor", t)
        pv == Leaf("Tensor", other)
        none == Dict(<<>>)
    IN {<<List(<<qv>>), none>>,
        <<List(<<pv, qv>>), none>>,
        <<List(<<List(<<qv, pv>>), Leaf("int", 0)>>), none>>,
        <<List(<<pv>>), Dict([k \in {"other"} |-> qv])>>,
        <<List(<<qv>>), Dict([k \in {"out"} |-> List(<<qv>>)])>>}

\* An operation on a Quantized Value reaches QTensor.__torch_dispatch__.
Dispatch ==
    /\ op \in {"quantize", "construct"}
    /\ q # None
    /\ \E packet \in Packets, tree \in ArgTrees(q[1], x) :
          LET r == TorchDispatch([overloadpacket |-> packet, overload |-> "default"],
                                 tree[1], tree[2])
          IN /\ call' = Some([op |-> packet, args |-> tree[1], kwargs |-> tree[2]])
             /\ out' = r.out
             /\ calls' = r.calls
    /\ trail' = Append(trail, "dispatch")
    /\ UNCHANGED <<x, qt, sc, q, src, deq, grads>>

Next ==
    \/ Quantize
    \/ Construct
    \/ Flatten
    \/ Unflatten
    \/ Dequantize
    \/ Backward
    \/ Dispatch

Spec == Init /\ [][Next]_vars

\* ------------------------------------------------------------ properties
Made == op \in {"quantize", "construct"}
Succeeded == out.status = "ok"
Failed == out.status = "error"
ExplicitScale == sc # None /\ ndim(sc[1]) > 0

\* The scale argument has the rank of the tensor argument and at most one
\* dimension of size # 1.
ShapeAccepted ==
    /\ ndim(sc[1]) = ndim(x)
    /\ Cardinality(NonUnit(sc[1].shape)) <= 1

\* Every dimension of the scale argument is 1, or the base's, or the base's is 1.
SizesCompatible ==
    \A i \in 1..ndim(sc[1]) :
        sc[1].shape[i] = 1 \/ x.shape[i] = 1 \/ sc[1].shape[i] = x.shape[i]

ArithmeticSteps == {"divide", "round", "clamp", "cast"}
StepsOf(o) == {o.steps[i] : i \in 1..Len(o.steps)}

\* C1 as stated: with an explicit scale of rank > 0 (on the device of the
\* tensor), quantize and direct construction succeed if and only if the
\* scale has the rank of base/data and at most one dimension of size # 1.
C1_Original ==
    (Made /\ ExplicitScale /\ sc[1].device = x.device)
        => (Succeeded <=> ShapeAccepted)

\* C1 amended: with an explicit scale of rank > 0, a scale with two or more
\* non-unit dimensions is rejected with the multi-axis error and one of a
\* different rank with the not-broadcastable error (after the device
\* assertion in a direct construction), and no other shape is rejected by
\* these checks; direct construction succeeds if and only if the shape is
\* accepted and data and scale are on one device; quantize succeeds if and
\* only if, in addition, every dimension of the scale is 1, equal to the
\* base's, or the base's is 1: otherwise the division raises.
C1_ScaleValidation ==
    (Made /\ ExplicitScale) =>
        LET checked == op = "quantize" \/ sc[1].device = x.device
            many == Cardinality(NonUnit(sc[1].shape)) >= 2
        IN /\ (out.err = "ValueError: multiple axis") <=> (checked /\ many)
           /\ (out.err = "ValueError: not broadcastable")
                 <=> (checked /\ ~many /\ ndim(sc[1]) # ndim(x))
           /\ op = "construct" =>
                 (Succeeded <=> (ShapeAccepted /\ sc[1].device = x.device))
           /\ op = "quantize" =>
                 (Succeeded <=> (ShapeAccepted /\ SizesCompatible
                                   /\ sc[1].device = x.device))

\* A quantize with a per-axis scale of rank >= 2 that succeeded.
C1_Witness ==
    /\ op = "quantize" /\ ExplicitScale /\ Succeeded
    /\ ndim(sc[1]) >= 2
    /\ Cardinality(NonUnit(sc[1].shape)) = 1

\* C2: a construction whose scale has the rank r >= 1 of the data and exactly
\* one dimension of size # 1, at index k, yields axis k when k < r - 1 and the
\* last-axis sentinel -1 when k = r - 1.
C2_AxisResolution ==
    (op = "construct" /\ Succeeded /\ ndim(sc[1]) >= 1) =>
        \A k \in 0..(ndim(sc[1]) - 1) :
            NonUnit(sc[1].shape) = {k + 1} =>
                q[1].axis = IF k < ndim(sc[1]) - 1 THEN Some(k) ELSE Some(-1)

\* A construction on rank-3 data whose scale varies along the middle dimension.
C2_Witness ==
    /\ op = "construct" /\ Succeeded
    /\ ndim(sc[1]) = 3 /\ NonUnit(sc[1].shape) = {2}
    /\ q[1].axis = Some(1)

\* C3: a construction whose scale has the rank (> 0) of the data and only
\* dimensions of size 1 succeeds (on one device) with axis none and a stored
\* scale of rank 0 holding the scale's element, the same value as when that
\* rank-0 scale is supplied.
C3_ScalarCollapse ==
    (op = "construct" /\ ExplicitScale /\ ndim(sc[1]) = ndim(x)
        /\ NonUnit(sc[1].shape) = {} /\ sc[1].device = x.device) =>
        LET scalar == [sc[1] EXCEPT !.shape = <<>>,
                          !.val = [c \in {<<>>} |-> sc[1].val[[i \in 1..ndim(sc[1]) |-> 0]]]]
        IN /\ Succeeded
           /\ q[1].axis = None
           /\ ndim(q[1].scale) = 0
           /\ q[1].scale = scalar
           /\ q = QTensorNew(qt, AsData(x, qt), scalar, <<>>).value

\* A construction on rank-3 data with a scale of shape (1, 1, 1).
C3_Witness ==
    /\ op = "construct" /\ Succeeded
    /\ sc[1].shape = <<1, 1, 1>>
    /\ q[1].axis = None

\* The quotient base / scale behind the stored element at coordinate c, and
\* the value the clamp receives (rounded for an integer qtype).
Quotient(c) ==
    NumDiv(x.val[Proj(c, x.shape)], q[1].scale.val[Proj(c, q[1].scale.shape)])
Unclamped(c) == IF qt.is_floating_point THEN Quotient(c) ELSE NumRound(Quotient(c))

\* The stored element at c lies in [info.min, info.max], at info.max when the
\* unclamped value exceeds it and at info.min when it is below it.
Saturated(c) ==
    LET info == dtype_info(qt.dtype)
        d == q[1].data.val[c]
    IN /\ Leq(info.min, d) /\ Leq(d, info.max)
       /\ Less(info.max, Unclamped(c)) => d = info.max
       /\ Less(Unclamped(c), info.min) => d = info.min

\* C4 as stated: every element of the data stored by quantize lies in
\* [info.min, info.max], saturated at the bound it exceeds.
C4_Original ==
    (op = "quantize" /\ Succeeded) =>
        \A c \in Coords(q[1].data.shape) : Saturated(c)

\* C4 amended: every element of the data stored by quantize whose quotient
\* base / scale is not NaN lies in [info.min, info.max], saturated at the
\* bound it exceeds (an infinite quotient included); a NaN quotient (0 / 0,
\* from a zero element of an explicit scale) is not clamped: it is stored as
\* NaN by a floating-point qtype and as some integer of the storage type by
\* an integer qtype.
C4_Clamping ==
    (op = "quantize" /\ Succeeded) =>
        \A c \in Coords(q[1].data.shape) :
            IF Quotient(c).k # "nan" THEN Saturated(c)
            ELSE IF qt.is_floating_point THEN q[1].data.val[c] = NaN
            ELSE /\ IsFin(q[1].data.val[c]) /\ q[1].data.val[c].d = 1
                 /\ q[1].data.val[c].n \in -Pow2(Int8Bits - 1)..(Pow2(Int8Bits - 1) - 1)

\* A quantize that stored info.max for an element beyond it and info.min for
\* one below it.
C4_Witness ==
    /\ op = "quantize" /\ Succeeded
    /\ \E c, e \in Coords(q[1].data.shape) :
          /\ Less(dtype_info(qt.dtype).max, Unclamped(c))
          /\ q[1].data.val[c] = dtype_info(qt.dtype).max
          /\ Less(Unclamped(e), dtype_info(qt.dtype).min)
          /\ q[1].data.val[e] = dtype_info(qt.dtype).min

RoundTrip == trail = <<"quantize", "dequantize">>

C6_GradientIdentity ==
    op = "backward" =>
        /\ grads[1].dequantize = grads[1].gO
        /\ grads[1].quantize = <<Some(grads[1].gO), None, None>>

\* A backward pass through a round trip that clamped an element.
C6_Witness ==
    /\ op = "backward"
    /\ \E c \in Coords(q[1].data.shape) : Less(dtype_info(qt.dtype).max, Unclamped(c))
    /\ grads[1].quantize[1] = Some(grads[1].gO)

\* C7: flattening a Quantized Value yields the inner tensors (data, scale)
\* and the metadata qtype alone, and unflattening them succeeds with the
\* same data, stored scale, qtype and axis.
C7_FlattenRoundTrip ==
    op = "unflatten" =>
        /\ src[1].flat.inner_tensors = <<"_data", "_scale">>
        /\ DOMAIN src[1].flat.meta = {"qtype"}
        /\ src[1].flat.meta.qtype = src[1].q.qtype
        /\ Succeeded
        /\ q[1].data = src[1].q.data
        /\ q[1].scale = src[1].q.scale
        /\ q[1].qtype = src[1].q.qtype
        /\ q[1].axis = src[1].q.axis

\* The unflattening of a value quantized per axis along a dimension that is
\* not the last.
C7_Witness ==
    /\ op = "unflatten" /\ Succeeded
    /\ src[1].q.axis = Some(0)
    /\ ndim(src[1].q.data) = 3
    /\ q[1] = src[1].q

RECURSIVE HasQTensor(_)
HasQTensor(node) ==
    \/ node.t = "QTensor"
    \/ /\ node.t \in {"list", "dict"}
       /\ \E i \in DOMAIN node.items : HasQTensor(node.items[i])

\* The tree `got` is the tree `sent` with every Quantized Value replaced by
\* its dequantized tensor and everything else as it was.
RECURSIVE Dequantized(_, _)
Dequantized(sent, got) ==
    IF sent.t = "QTensor"
    THEN got = Leaf("Tensor", DequantizerForward(sent.v))
    ELSE IF sent.t \in {"list", "dict"}
    THEN /\ got.t = sent.t
         /\ DOMAIN got.items = DOMAIN sent.items
         /\ \A i \in DOMAIN sent.items : Dequantized(sent.items[i], got.items[i])
    ELSE got = sent

Dispatched == op = "dispatch"
Unhandled == call[1].op \notin Registered
ViaFallback ==
    /\ Len(calls) = 1
    /\ calls[1].callee = "callable" /\ calls[1].target = call[1].op
    /\ Dequantized(call[1].args, calls[1].args)
    /\ Dequantized(call[1].kwargs, calls[1].kwargs)
    /\ ~HasQTensor(calls[1].args) /\ ~HasQTensor(calls[1].kwargs)
ViaHandler ==
    calls = <<Call("qdispatch", call[1].op, call[1].args, call[1].kwargs)>>

\* C8 as stated: an operation with no registered handler is invoked exactly
\* once through the fallback, with every Quantized Value of its argument tree
\* replaced by its dequantized tensor and the rest unchanged; an operation
\* with a registered handler is passed to the handler with its arguments.
C8_Original ==
    Dispatched => IF Unhandled THEN ViaFallback ELSE ViaHandler

\* Every Quantized Value of the dispatched arguments has a scale that
\* broadcasts against its data.
ArgsDequantize ==
    \A t \in QLeaves(call[1].args) \cup QLeaves(call[1].kwargs) :
        \A i \in 1..ndim(t.scale) :
            t.scale.shape[i] = 1 \/ t.data.shape[i] = 1
                \/ t.scale.shape[i] = t.data.shape[i]

\* C8 amended: an operation with no registered handler is invoked exactly
\* once through the fallback, with every Quantized Value of its argument tree
\* replaced by its dequantized tensor and the rest unchanged, unless the
\* dequantization of an argument raises (a directly constructed value whose
\* scale does not broadcast against its data): then the fallback raises and
\* the operation is not invoked; an operation with a registered handler is
\* passed to the handler with its arguments, and the fallback is not used.
C8_Fallback ==
    Dispatched =>
        IF ~Unhandled THEN Succeeded /\ ViaHandler
        ELSE IF ArgsDequantize THEN Succeeded /\ ViaFallback
        ELSE Failed /\ calls = <<>>

\* A fallback call whose Quantized Value was nested in a list argument.
C8_Witness ==
    /\ Dispatched /\ Unhandled /\ Succeeded
    /\ call[1].args.items[1].t = "list"
    /\ HasQTensor(call[1].args.items[1])
    /\ ViaFallback

\* C9 as stated: every validation failure of quantize or of a construction
\* (multi-axis scale, rank mismatch, device inequality) is raised before any
\* element-wise arithmetic step, and a failure produces no Quantized Value.
ValidationErrors ==
    {"ValueError: multiple axis", "ValueError: not broadcastable", "AssertionError: device"}
C9_Original ==
    (Made /\ Failed) =>
        /\ out.err \in ValidationErrors => StepsOf(out) \cap ArithmeticSteps = {}
        /\ q = None

\* C9 amended: the shape validation of quantize and of a construction
\* (multi-axis scale, rank mismatch) is made at the entry, before any
\* element-wise arithmetic step: an explicit scale of rank > 0 with two or
\* more non-unit dimensions or of another rank than the base fails quantize
\* with no arithmetic step executed; the device equality of data and scale
\* is asserted at the entry of a construction, and so, in quantize, only
\* after divide, round, clamp and cast; a failing quantize or construction
\* produces no Quantized Value and stores nothing.
C9_EagerValidation ==
    /\ (Made /\ Failed) =>
          /\ out.err \in {"ValueError: multiple axis", "ValueError: not broadcastable"}
                => StepsOf(out) \cap ArithmeticSteps = {}
          /\ (op = "quantize" /\ out.err = "AssertionError: device")
                => {"divide", "clamp", "cast"} \subseteq StepsOf(out)
          /\ (op = "construct" /\ out.err = "AssertionError: device")
                => out.steps = <<"new_assert_device">>
          /\ q = None /\ out.value = None
          /\ "store" \notin StepsOf(out)
    /\ (op = "quantize" /\ ExplicitScale /\ ~ShapeAccepted) =>
          Failed /\ StepsOf(out) \cap ArithmeticSteps = {}

\* A quantize that failed the device assertion after its arithmetic.
C9_Witness ==
    /\ op = "quantize" /\ Failed
    /\ out.err = "AssertionError: device"
    /\ "cast" \in StepsOf(out)
    /\ q = None

\* C10: every Quantized Value in existence has axis none exactly when its
\* stored scale has rank 0; otherwise the stored scale has the rank r of the
\* data and exactly one dimension of size # 1, the one axis designates (-1
\* designating r - 1), and axis is one of 0..r-2 or -1; and the stored data
\* and scale are on one device.
WellFormed(t) ==
    LET r == ndim(t.data)
    IN /\ (t.axis = None) <=> (ndim(t.scale) = 0)
       /\ t.axis # None =>
             /\ ndim(t.scale) = r
             /\ t.axis[1] \in (0..(r - 2)) \cup {-1}
             /\ NonUnit(t.scale.shape) = {(IF t.axis[1] = -1 THEN r - 1 ELSE t.axis[1]) + 1}
       /\ t.data.device = t.scale.device
C10_WellFormed ==
    /\ q # None => WellFormed(q[1])
    /\ src # None => WellFormed(src[1].q)

\* A value unflattened from one quantized per axis on rank-3 data.
C10_Witness ==
    /\ op = "unflatten" /\ q # None
    /\ ndim(q[1].data) = 3
    /\ q[1].axis = Some(1)
    /\ trail[1] = "quantize"

====
